---- MODULE Spec2Model ----
(***************************************************************************)
(* sync-tokens: the cancelation latch (CancelationToken / Cancelable /     *)
(* CancelationTokenFuture) and the completion latch (CompletionToken /     *)
(* Completable).  Each latch is an Arc<Mutex<State>>; every method locks   *)
(* the mutex, works on the state and drops the guard when it returns.      *)
(* A method is modelled as two steps: taking the lock (lock().unwrap())    *)
(* and the critical section, which ends by releasing the lock.             *)
(***************************************************************************)
EXTENDS Integers, FiniteSets, Sequences, TLC

\* ---- bounds ----
NumCancelers == 2   \* threads that call CancelationToken::cancel
NumWaiters   == 2   \* tasks that await a CancelationTokenFuture of their own
NumTokens    == 2   \* CompletionToken handles: the original and its clones
MaxCancels   == 2   \* calls to cancel() in one behaviour
MaxCompletes == 2   \* calls to complete() in one behaviour

\* ---- threads, tasks and values ----
Cancelers == {<<"canceler", i>> : i \in 1..NumCancelers}
Waiters   == {<<"waiter", i>> : i \in 1..NumWaiters}
Racer     == <<"racer", 1>>          \* the task that awaits allow_cancel
Producer  == <<"producer", 1>>       \* the owner of the Completable
Tokens    == {<<"token", i>> : i \in 1..NumTokens}
Original  == <<"token", 1>>          \* the CompletionToken returned by new()

CancelWakers == Waiters \cup {Racer}
Threads      == Cancelers \cup Waiters \cup {Racer, Producer} \cup Tokens
Tasks        == Waiters \cup {Racer} \cup Tokens

None      == <<"None">>              \* Option::None
Some(v)   == <<"Some", v>>           \* Option::Some(v)
Unset     == "-"                     \* an argument before the call binds it
NoThread  == <<"unlocked">>
OpValues  == {"result", "error"}     \* outputs of the raced future
Fallbacks == {"canceled", "error"}   \* canceled_result arguments
Values    == {"complete", "done"}    \* arguments of complete()

VARIABLES
  pair,          \* the pair the program made: new() of which token type
  cancelation,   \* CancelationTokenState: [canceled, waker]
  completion,    \* CompletionTokenState: [complete, result, waker]
  lock,          \* owner of each latch's mutex
  poisoned,      \* whether each latch's mutex is poisoned
  pc,            \* position of every thread / task
  scheduled,     \* tasks whose waker fired or that were never polled
  woke,          \* times each task's waker was invoked by a latch
  wokeLocked,    \* whether the latch's mutex was owned when it was invoked
  last,          \* outcome of each thread's latest call
  ac,            \* the allow_cancel call: arguments, raced future, result
  got,           \* value each CompletionToken's await produced
  futures,       \* CancelationTokenFutures made by Cancelable::future
  tokens,        \* CompletionToken handles in existence
  cancelCalls,   \* calls to cancel() started
  cancelsDone,   \* calls to cancel() returned
  completeCalls, \* calls to complete() started
  completed      \* values stored by complete(), in order

vars == <<pair, cancelation, completion, lock, poisoned, pc, scheduled, woke,
          wokeLocked, last, ac, got, futures, tokens, cancelCalls, cancelsDone, completeCalls,
          completed>>

\* CancelationToken::new and CompletionToken::new
CancelationToken_new == [canceled |-> FALSE, waker |-> None]

CompletionToken_new == [complete |-> FALSE, result |-> None, waker |-> None]

NoCall ==
  [opReady |-> FALSE, opNever |-> FALSE, opVal |-> Unset, fallback |-> Unset,
   opPolls |-> 0, opWaker |-> FALSE, ret |-> None, arm |-> "none",
   afterCancel |-> FALSE, canceledAtPoll |-> FALSE]

Init ==
  /\ pair \in {"cancelation", "completion"}
  /\ cancelation = CancelationToken_new
  /\ completion = CompletionToken_new
  /\ lock = [l \in {"cancelation", "completion"} |-> NoThread]
  /\ poisoned = [l \in {"cancelation", "completion"} |-> FALSE]
  /\ pc = [t \in Threads |-> IF t = Racer THEN "notcalled" ELSE "idle"]
  /\ scheduled = [t \in Tasks |-> TRUE]
  /\ woke = [t \in Tasks |-> 0]
  /\ wokeLocked = [t \in Tasks |-> FALSE]
  /\ last = [t \in Threads |-> "none"]
  /\ ac = NoCall
  /\ got = [t \in Tokens |-> None]
  /\ futures = {}
  /\ tokens = {Original}
  /\ cancelCalls = 0
  /\ cancelsDone = 0
  /\ completeCalls = 0
  /\ completed = <<>>

\* ---- the critical sections, as the code computes them ----

\* cancel that takes the waker and drops it without calling wake()
cancel_no_wake(s) ==
  [state |-> [canceled |-> TRUE, waker |-> None], wake |-> None]

\* cancel that wakes by reference and leaves the waker in the slot
cancel_wake_by_ref(s) ==
  [state |-> [canceled |-> TRUE, waker |-> s.waker], wake |-> s.waker]

\* cancel that wakes the waiter without setting canceled
cancel_wake_only(s) ==
  [state |-> [canceled |-> s.canceled, waker |-> None], wake |-> s.waker]

\* CancelationToken::cancel: set canceled, take the waker, wake it
cancel(s) ==
  [state |-> [canceled |-> TRUE, waker |-> None], wake |-> s.waker]

\* poll that stores the waker before looking at canceled
CancelationTokenFuture_poll_always_store(s, w) ==
  [state |-> [s EXCEPT !.waker = w],
   ret |-> IF s.canceled THEN "Ready" ELSE "Pending"]

\* poll that never looks at canceled
CancelationTokenFuture_poll_unchecked(s, w) ==
  [state |-> [s EXCEPT !.waker = w], ret |-> "Pending"]

\* poll that keeps a waker already stored instead of replacing it
CancelationTokenFuture_poll_keep_first(s, w) ==
  IF s.canceled
    THEN [state |-> s, ret |-> "Ready"]
    ELSE [state |-> IF s.waker = None THEN [s EXCEPT !.waker = w] ELSE s,
          ret |-> "Pending"]

\* CancelationTokenFuture::poll with the context's waker w
CancelationTokenFuture_poll(s, w) ==
  IF s.canceled
    THEN [state |-> s, ret |-> "Ready"]
    ELSE [state |-> [s EXCEPT !.waker = w], ret |-> "Pending"]

\* allow_cancel without its pre-check
allow_cancel_precheck_missing(s) == FALSE

\* the pre-check of Cancelable::allow_cancel
allow_cancel_precheck(s) == s.canceled

\* select(future, cancelation_token_future): the result of one poll, given
\* the poll of the left future and (when that is pending) of the right one
select_left(opReady, opVal) ==
  IF opReady THEN [ready |-> TRUE, arm |-> "Left", val |-> opVal]
             ELSE [ready |-> FALSE, arm |-> "none", val |-> Unset]

\* the match with its arms exchanged
allow_cancel_match_swapped(arm, l, canceled_result) ==
  IF arm = "Left" THEN canceled_result ELSE l

\* the match in allow_cancel
allow_cancel_match(arm, l, canceled_result) ==
  IF arm = "Left" THEN l ELSE canceled_result

\* complete without the already-complete check
complete_overwrite(s, v) ==
  [panic |-> FALSE,
   state |-> [complete |-> TRUE, result |-> Some(v), waker |-> None],
   wake |-> s.waker]

\* complete that takes the waker and drops it without calling wake()
complete_no_wake(s, v) ==
  IF s.complete
    THEN [panic |-> TRUE, state |-> s, wake |-> None]
    ELSE [panic |-> FALSE,
          state |-> [complete |-> TRUE, result |-> Some(v), waker |-> None],
          wake |-> None]

\* complete that stores the result before it checks for a second call
complete_check_late(s, v) ==
  [panic |-> s.complete,
   state |-> [complete |-> TRUE, result |-> Some(v), waker |-> None],
   wake |-> IF s.complete THEN None ELSE s.waker]

\* Completable::complete
complete(s, v) ==
  IF s.complete
    THEN [panic |-> TRUE, state |-> s, wake |-> None]
    ELSE [panic |-> FALSE,
          state |-> [complete |-> TRUE, result |-> Some(v), waker |-> None],
          wake |-> s.waker]

\* poll that re-arms the latch when it hands the result out
CompletionToken_poll_resets_complete(s, w) ==
  IF s.complete
    THEN IF s.result = None
           THEN [panic |-> TRUE, state |-> s, ret |-> "panic", val |-> None]
           ELSE [panic |-> FALSE,
                 state |-> [s EXCEPT !.result = None, !.complete = FALSE],
                 ret |-> "Ready", val |-> s.result]
    ELSE [panic |-> FALSE, state |-> [s EXCEPT !.waker = w],
          ret |-> "Pending", val |-> None]

\* poll that copies the result out and leaves it in the slot
CompletionToken_poll_keeps_result(s, w) ==
  IF s.complete
    THEN IF s.result = None
           THEN [panic |-> TRUE, state |-> s, ret |-> "panic", val |-> None]
           ELSE [panic |-> FALSE, state |-> s,
                 ret |-> "Ready", val |-> s.result]
    ELSE [panic |-> FALSE, state |-> [s EXCEPT !.waker = w],
          ret |-> "Pending", val |-> None]

\* CompletionToken::poll with the context's waker w
CompletionToken_poll(s, w) ==
  IF s.complete
    THEN IF s.result = None
           THEN [panic |-> TRUE, state |-> s, ret |-> "panic", val |-> None]
           ELSE [panic |-> FALSE, state |-> [s EXCEPT !.result = None],
                 ret |-> "Ready", val |-> s.result]
    ELSE [panic |-> FALSE, state |-> [s EXCEPT !.waker = w],
          ret |-> "Pending", val |-> None]

\* Waker::wake, called by a method of latch l before its guard is dropped:
\* the task is scheduled to be polled again
Wake(w, l) ==
  IF w = None
    THEN UNCHANGED <<scheduled, woke, wokeLocked>>
    ELSE /\ scheduled' = [scheduled EXCEPT ![w] = TRUE]
         /\ woke' = [woke EXCEPT ![w] = @ + 1]
         /\ wokeLocked' = [wokeLocked EXCEPT ![w] = lock[l] # NoThread]

\* Mutex::lock: blocks while another thread owns the mutex
CanLock(l) == lock[l] = NoThread

Locked(l, t) == [lock EXCEPT ![l] = t]

\* a guard that is kept instead of dropped
Unlocked_leak(l) == lock

Unlocked(l) == [lock EXCEPT ![l] = NoThread]

\* ---- CancelationToken::cancel ----
CancelLock(k) ==
  /\ pair = "cancelation"
  /\ pc[k] = "idle"
  /\ cancelCalls < MaxCancels
  /\ CanLock("cancelation")
  /\ cancelCalls' = cancelCalls + 1
  /\ IF poisoned["cancelation"]
       THEN /\ last' = [last EXCEPT ![k] = "panic"]
            /\ UNCHANGED <<lock, pc>>
       ELSE /\ lock' = Locked("cancelation", k)
            /\ pc' = [pc EXCEPT ![k] = "locked"]
            /\ UNCHANGED last
  /\ UNCHANGED <<pair, cancelation, completion, poisoned, scheduled, woke, wokeLocked, ac, got,
                 futures, tokens, cancelsDone, completeCalls, completed>>

CancelBody(k) ==
  /\ pair = "cancelation"
  /\ pc[k] = "locked"
  /\ LET r == cancel(cancelation)
     IN /\ cancelation' = r.state
        /\ Wake(r.wake, "cancelation")
  /\ lock' = Unlocked("cancelation")
  /\ pc' = [pc EXCEPT ![k] = "idle"]
  /\ last' = [last EXCEPT ![k] = "ok"]
  /\ cancelsDone' = cancelsDone + 1
  /\ UNCHANGED <<pair, completion, poisoned, ac, got, futures, tokens, cancelCalls,
                 completeCalls, completed>>

\* ---- Cancelable::future and a task awaiting it ----
Cancelable_future(w) ==
  /\ pair = "cancelation"
  /\ w \notin futures
  /\ futures' = futures \cup {w}
  /\ UNCHANGED <<pair, cancelation, completion, lock, poisoned, pc, scheduled, woke, wokeLocked,
                 last, ac, got, tokens, cancelCalls, cancelsDone,
                 completeCalls, completed>>

WaitLock(w) ==
  /\ pair = "cancelation"
  /\ w \in futures
  /\ pc[w] = "idle"
  /\ scheduled[w]
  /\ CanLock("cancelation")
  /\ scheduled' = [scheduled EXCEPT ![w] = FALSE]
  /\ IF poisoned["cancelation"]
       THEN /\ last' = [last EXCEPT ![w] = "panic"]
            /\ pc' = [pc EXCEPT ![w] = "dead"]
            /\ UNCHANGED lock
       ELSE /\ lock' = Locked("cancelation", w)
            /\ pc' = [pc EXCEPT ![w] = "locked"]
            /\ UNCHANGED last
  /\ UNCHANGED <<pair, cancelation, completion, poisoned, woke, wokeLocked, ac, got, futures,
                 tokens, cancelCalls, cancelsDone, completeCalls, completed>>

WaitPoll(w) ==
  /\ pair = "cancelation"
  /\ pc[w] = "locked"
  /\ LET r == CancelationTokenFuture_poll(cancelation, w)
     IN /\ cancelation' = r.state
        /\ last' = [last EXCEPT ![w] = r.ret]
        /\ pc' = [pc EXCEPT ![w] = IF r.ret = "Ready" THEN "done" ELSE "idle"]
  /\ lock' = Unlocked("cancelation")
  /\ UNCHANGED <<pair, completion, poisoned, scheduled, woke, wokeLocked, ac, got, futures,
                 tokens, cancelCalls, cancelsDone, completeCalls, completed>>

\* ---- Cancelable::allow_cancel, awaited by the Racer task ----
\* the call: the arguments are bound; an async fn runs nothing until polled
AllowCancelCall ==
  /\ pair = "cancelation"
  /\ pc[Racer] = "notcalled"
  /\ \E ready \in BOOLEAN, never \in BOOLEAN, v \in OpValues, f \in Fallbacks :
       /\ never => ~ready
       /\ ac' = [NoCall EXCEPT !.opReady = ready, !.opNever = never,
                               !.opVal = v, !.fallback = f,
                               !.afterCancel = (cancelsDone > 0)]
  /\ pc' = [pc EXCEPT ![Racer] = "start"]
  /\ UNCHANGED <<pair, cancelation, completion, lock, poisoned, scheduled, woke, wokeLocked,
                 last, got, futures, tokens, cancelCalls, cancelsDone,
                 completeCalls, completed>>

\* first poll, line 83: self.shared_state.lock().unwrap()
AllowCancelPrecheckLock ==
  /\ pair = "cancelation"
  /\ pc[Racer] = "start"
  /\ CanLock("cancelation")
  /\ scheduled' = [scheduled EXCEPT ![Racer] = FALSE]
  /\ IF poisoned["cancelation"]
       THEN /\ last' = [last EXCEPT ![Racer] = "panic"]
            /\ pc' = [pc EXCEPT ![Racer] = "dead"]
            /\ UNCHANGED lock
       ELSE /\ lock' = Locked("cancelation", Racer)
            /\ pc' = [pc EXCEPT ![Racer] = "prechecking"]
            /\ UNCHANGED last
  /\ UNCHANGED <<pair, cancelation, completion, poisoned, woke, wokeLocked, ac, got, futures,
                 tokens, cancelCalls, cancelsDone, completeCalls, completed>>

\* lines 84-87: return canceled_result if canceled, else drop the guard
AllowCancelPrecheck ==
  /\ pair = "cancelation"
  /\ pc[Racer] = "prechecking"
  /\ IF allow_cancel_precheck(cancelation)
       THEN /\ ac' = [ac EXCEPT !.ret = Some(ac.fallback), !.arm = "precheck"]
            /\ pc' = [pc EXCEPT ![Racer] = "done"]
            /\ last' = [last EXCEPT ![Racer] = "Ready"]
       ELSE /\ pc' = [pc EXCEPT ![Racer] = "pollop"]
            /\ UNCHANGED <<ac, last>>
  /\ lock' = Unlocked("cancelation")
  /\ UNCHANGED <<pair, cancelation, completion, poisoned, scheduled, woke, wokeLocked, got,
                 futures, tokens, cancelCalls, cancelsDone, completeCalls,
                 completed>>

\* a select built as select(cancelation_token_future, future): the
\* cancelation future is polled first, the raced future after it
AllowCancelPollOp_right_first ==
  /\ pair = "cancelation"
  /\ \/ pc[Racer] = "pollop"
     \/ pc[Racer] = "suspended" /\ scheduled[Racer]
  /\ CanLock("cancelation")
  /\ scheduled' = [scheduled EXCEPT ![Racer] = FALSE]
  /\ LET c == CancelationTokenFuture_poll(cancelation, Racer)
         r == select_left(ac.opReady, ac.opVal)
     IN /\ cancelation' = c.state
        /\ IF c.ret = "Ready"
             THEN /\ ac' = [ac EXCEPT !.ret = Some(ac.fallback),
                                      !.arm = "Right",
                                      !.canceledAtPoll = cancelation.canceled]
                  /\ pc' = [pc EXCEPT ![Racer] = "done"]
                  /\ last' = [last EXCEPT ![Racer] = "Ready"]
             ELSE IF r.ready
               THEN /\ ac' = [ac EXCEPT !.opPolls = @ + 1,
                                        !.ret = Some(r.val), !.arm = r.arm,
                                        !.canceledAtPoll = cancelation.canceled]
                    /\ pc' = [pc EXCEPT ![Racer] = "done"]
                    /\ last' = [last EXCEPT ![Racer] = "Ready"]
               ELSE /\ ac' = [ac EXCEPT !.opPolls = @ + 1, !.opWaker = TRUE,
                                        !.canceledAtPoll = cancelation.canceled]
                    /\ pc' = [pc EXCEPT ![Racer] = "suspended"]
                    /\ last' = [last EXCEPT ![Racer] = "Pending"]
  /\ UNCHANGED <<pair, completion, lock, poisoned, woke, wokeLocked, got,
                 futures, tokens, cancelCalls, cancelsDone, completeCalls,
                 completed>>

\* a poll of the select: the raced future is polled first (canceledAtPoll
\* records what the latch held at that moment).  The first poll
\* continues from the pre-check; later polls happen when the task was woken.
AllowCancelPollOp ==
  /\ pair = "cancelation"
  /\ \/ pc[Racer] = "pollop"
     \/ pc[Racer] = "suspended" /\ scheduled[Racer]
  /\ scheduled' = [scheduled EXCEPT ![Racer] = FALSE]
  /\ LET r == select_left(ac.opReady, ac.opVal)
     IN IF r.ready
          THEN /\ ac' = [ac EXCEPT !.opPolls = @ + 1,
                          !.canceledAtPoll = cancelation.canceled,
                          !.ret = Some(allow_cancel_match(r.arm, r.val, ac.fallback)),
                          !.arm = r.arm]
               /\ pc' = [pc EXCEPT ![Racer] = "done"]
               /\ last' = [last EXCEPT ![Racer] = "Ready"]
          ELSE /\ ac' = [ac EXCEPT !.opPolls = @ + 1, !.opWaker = TRUE,
                          !.canceledAtPoll = cancelation.canceled]
               /\ pc' = [pc EXCEPT ![Racer] = "pollcancel"]
               /\ UNCHANGED last
  /\ UNCHANGED <<pair, cancelation, completion, lock, poisoned, woke, wokeLocked, got, futures,
                 tokens, cancelCalls, cancelsDone, completeCalls, completed>>

\* the raced future was pending: select polls the CancelationTokenFuture
AllowCancelPollLock ==
  /\ pair = "cancelation"
  /\ pc[Racer] = "pollcancel"
  /\ CanLock("cancelation")
  /\ IF poisoned["cancelation"]
       THEN /\ last' = [last EXCEPT ![Racer] = "panic"]
            /\ pc' = [pc EXCEPT ![Racer] = "dead"]
            /\ UNCHANGED lock
       ELSE /\ lock' = Locked("cancelation", Racer)
            /\ pc' = [pc EXCEPT ![Racer] = "polling"]
            /\ UNCHANGED last
  /\ UNCHANGED <<pair, cancelation, completion, poisoned, scheduled, woke, wokeLocked, ac, got,
                 futures, tokens, cancelCalls, cancelsDone, completeCalls,
                 completed>>

AllowCancelPollCancel ==
  /\ pair = "cancelation"
  /\ pc[Racer] = "polling"
  /\ LET r == CancelationTokenFuture_poll(cancelation, Racer)
     IN /\ cancelation' = r.state
        /\ IF r.ret = "Ready"
             THEN /\ ac' = [ac EXCEPT
                              !.ret = Some(allow_cancel_match("Right", Unset, ac.fallback)),
                              !.arm = "Right"]
                  /\ pc' = [pc EXCEPT ![Racer] = "done"]
                  /\ last' = [last EXCEPT ![Racer] = "Ready"]
             ELSE /\ pc' = [pc EXCEPT ![Racer] = "suspended"]
                  /\ last' = [last EXCEPT ![Racer] = "Pending"]
                  /\ UNCHANGED ac
  /\ lock' = Unlocked("cancelation")
  /\ UNCHANGED <<pair, completion, poisoned, scheduled, woke, wokeLocked, got, futures, tokens,
                 cancelCalls, cancelsDone, completeCalls, completed>>

\* the raced future becomes ready and wakes the task that polled it
OpResolve ==
  /\ pair = "cancelation"
  /\ pc[Racer] \notin {"notcalled", "done", "dead"}
  /\ ~ac.opReady
  /\ ~ac.opNever
  /\ ac' = [ac EXCEPT !.opReady = TRUE]
  /\ scheduled' = [scheduled EXCEPT ![Racer] = @ \/ ac.opWaker]
  /\ UNCHANGED <<pair, cancelation, completion, lock, poisoned, pc, woke, wokeLocked, last, got,
                 futures, tokens, cancelCalls, cancelsDone, completeCalls,
                 completed>>

\* ---- Completable::complete ----
CompleteLock ==
  /\ pair = "completion"
  /\ pc[Producer] = "idle"
  /\ completeCalls < MaxCompletes
  /\ CanLock("completion")
  /\ completeCalls' = completeCalls + 1
  /\ IF poisoned["completion"]
       THEN /\ last' = [last EXCEPT ![Producer] = "panic"]
            /\ UNCHANGED <<lock, pc>>
       ELSE /\ lock' = Locked("completion", Producer)
            /\ pc' = [pc EXCEPT ![Producer] = "locked"]
            /\ UNCHANGED last
  /\ UNCHANGED <<pair, cancelation, completion, poisoned, scheduled, woke, wokeLocked, ac, got,
                 futures, tokens, cancelCalls, cancelsDone, completed>>

\* lines 63-72; a panic unwinds through the guard and poisons the mutex
CompleteBody(v) ==
  /\ pair = "completion"
  /\ pc[Producer] = "locked"
  /\ LET r == complete(completion, v)
     IN /\ completion' = r.state
        /\ Wake(r.wake, "completion")
        /\ poisoned' = [poisoned EXCEPT !["completion"] = @ \/ r.panic]
        /\ last' = [last EXCEPT ![Producer] = IF r.panic THEN "panic" ELSE "ok"]
        /\ completed' = IF r.panic THEN completed ELSE Append(completed, v)
  /\ lock' = Unlocked("completion")
  /\ pc' = [pc EXCEPT ![Producer] = "idle"]
  /\ UNCHANGED <<pair, cancelation, ac, got, futures, tokens, cancelCalls,
                 cancelsDone, completeCalls>>

\* ---- CompletionToken: clone and a task awaiting each handle ----
CompletionToken_clone(c) ==
  /\ pair = "completion"
  /\ c \notin tokens
  /\ tokens' = tokens \cup {c}
  /\ UNCHANGED <<pair, cancelation, completion, lock, poisoned, pc, scheduled, woke, wokeLocked,
                 last, ac, got, futures, cancelCalls, cancelsDone,
                 completeCalls, completed>>

\* a poll that recovers the guard from a poisoned mutex
TokenLock_ignores_poison(c) ==
  /\ pair = "completion"
  /\ c \in tokens
  /\ pc[c] = "idle"
  /\ scheduled[c]
  /\ CanLock("completion")
  /\ scheduled' = [scheduled EXCEPT ![c] = FALSE]
  /\ lock' = Locked("completion", c)
  /\ pc' = [pc EXCEPT ![c] = "locked"]
  /\ UNCHANGED <<pair, cancelation, completion, poisoned, woke, wokeLocked,
                 last, ac, got, futures, tokens, cancelCalls, cancelsDone,
                 completeCalls, completed>>

TokenLock(c) ==
  /\ pair = "completion"
  /\ c \in tokens
  /\ pc[c] = "idle"
  /\ scheduled[c]
  /\ CanLock("completion")
  /\ scheduled' = [scheduled EXCEPT ![c] = FALSE]
  /\ IF poisoned["completion"]
       THEN /\ last' = [last EXCEPT ![c] = "panic"]
            /\ pc' = [pc EXCEPT ![c] = "dead"]
            /\ UNCHANGED lock
       ELSE /\ lock' = Locked("completion", c)
            /\ pc' = [pc EXCEPT ![c] = "locked"]
            /\ UNCHANGED last
  /\ UNCHANGED <<pair, cancelation, completion, poisoned, woke, wokeLocked, ac, got, futures,
                 tokens, cancelCalls, cancelsDone, completeCalls, completed>>

TokenPoll(c) ==
  /\ pair = "completion"
  /\ pc[c] = "locked"
  /\ LET r == CompletionToken_poll(completion, c)
     IN /\ completion' = r.state
        /\ poisoned' = [poisoned EXCEPT !["completion"] = @ \/ r.panic]
        /\ last' = [last EXCEPT ![c] = r.ret]
        /\ got' = [got EXCEPT ![c] = r.val]
        /\ pc' = [pc EXCEPT ![c] = CASE r.ret = "Ready" -> "done"
                                     [] r.ret = "panic" -> "dead"
                                     [] OTHER -> "idle"]
  /\ lock' = Unlocked("completion")
  /\ UNCHANGED <<pair, cancelation, scheduled, woke, wokeLocked, ac, futures, tokens,
                 cancelCalls, cancelsDone, completeCalls, completed>>

Next ==
  \/ \E k \in Cancelers : CancelLock(k)
  \/ \E k \in Cancelers : CancelBody(k)
  \/ \E w \in Waiters : Cancelable_future(w)
  \/ \E w \in Waiters : WaitLock(w)
  \/ \E w \in Waiters : WaitPoll(w)
  \/ AllowCancelCall
  \/ AllowCancelPrecheckLock
  \/ AllowCancelPrecheck
  \/ AllowCancelPollOp
  \/ AllowCancelPollLock
  \/ AllowCancelPollCancel
  \/ OpResolve
  \/ CompleteLock
  \/ \E v \in Values : CompleteBody(v)
  \/ \E c \in Tokens : CompletionToken_clone(c)
  \/ \E c \in Tokens : TokenLock(c)
  \/ \E c \in Tokens : TokenPoll(c)

Spec == Init /\ [][Next]_vars

\* A started call runs to its return, and a scheduled task is polled; what
\* is called, cloned or resolved from outside is not forced.
Fairness ==
  /\ \A k \in Cancelers : WF_vars(CancelBody(k))
  /\ \A w \in Waiters : WF_vars(WaitLock(w)) /\ WF_vars(WaitPoll(w))
  /\ WF_vars(AllowCancelPrecheckLock)
  /\ WF_vars(AllowCancelPrecheck)
  /\ WF_vars(AllowCancelPollOp)
  /\ WF_vars(AllowCancelPollLock)
  /\ WF_vars(AllowCancelPollCancel)
  /\ WF_vars(\E v \in Values : CompleteBody(v))
  /\ \A c \in Tokens : WF_vars(TokenLock(c)) /\ WF_vars(TokenPoll(c))

LiveSpec == Init /\ [][Next]_vars /\ Fairness
\* ---- steps, as seen from outside ----
\* a cancel() call returns in this step
CancelReturns == cancelsDone' = cancelsDone + 1

\* task w's poll of its CancelationTokenFuture returns in this step
WaitPollReturns(w) == pc[w] = "locked" /\ pc'[w] # "locked"

\* the select inside allow_cancel finishes its poll of the cancelation future
RacerPollReturns == pc[Racer] = "polling" /\ pc'[Racer] # "polling"

\* the critical section of complete() ends in this step
CompleteReturns == pc[Producer] = "locked" /\ pc'[Producer] # "locked"

\* token c's poll returns in this step
TokenPollReturns(c) == pc[c] = "locked" /\ pc'[c] # "locked"

\* ---- claims ----

\* C1: no missed wakeup.  The continuation that a pending poll registered and
\* that is in the latch when cancel() runs is invoked by that cancel() call,
\* exactly once: the call wakes it, empties the slot, and no waker is ever
\* invoked a second time.
C1_NoMissedWakeup ==
  /\ [](\A w \in CancelWakers : woke[w] <= 1)
  /\ [][\A w \in CancelWakers :
          (cancelation.waker = w /\ CancelReturns)
            => /\ woke'[w] = woke[w] + 1
               /\ scheduled'[w]
               /\ cancelation'.waker = None]_vars

C1_Witness ==
  \E w \in Waiters :
    last[w] = "Pending" /\ woke[w] = 1 /\ scheduled[w] /\ cancelsDone = 1

\* C2: a race against an operation that never resolves, with cancel() called
\* after allow_cancel started, eventually returns the fallback value.
C2_CancelationWins ==
  (pc[Racer] # "notcalled" /\ ac.opNever /\ ~ac.afterCancel
     /\ cancelation.canceled)
    ~> (pc[Racer] = "done" /\ ac.ret = Some(ac.fallback))

\* C3: when cancel() returned before allow_cancel was called, the raced
\* operation is never polled and allow_cancel returns the fallback value.
C3_AlreadyCanceled ==
  /\ [](ac.afterCancel =>
          /\ ac.opPolls = 0
          /\ pc[Racer] = "done" =>
               (ac.ret = Some(ac.fallback) /\ ac.arm = "precheck"))
  /\ (ac.afterCancel ~> pc[Racer] = "done")

C3_Witness ==
  /\ ac.afterCancel
  /\ ac.opReady
  /\ pc[Racer] = "done"
  /\ ac.ret = Some(ac.fallback)

\* C4: with no cancel() call, allow_cancel returns exactly the value the
\* operation resolved to, through the Left arm, also when it is an error.
C4_OperationWins ==
  (pc[Racer] = "done" /\ cancelCalls = 0)
    => (ac.ret = Some(ac.opVal) /\ ac.arm = "Left")

C4_Witness ==
  /\ pc[Racer] = "done"
  /\ cancelCalls = 0
  /\ ac.ret = Some("error")
  /\ ac.fallback = "canceled"
  /\ ac.opPolls = 2

\* C5: after one complete(v), every await on the CompletionToken or on a
\* clone of it yields v.
C5_EveryReaderGetsValue ==
  \A c \in Tokens :
    (completeCalls = 1 /\ Len(completed) = 1 /\ pc[c] \in {"done", "dead"})
      => (last[c] = "Ready" /\ got[c] = Some(completed[1]))

\* C6: a complete() on an already complete pair panics and leaves the shared
\* state as it was; after complete(v1), complete(v2) with no read in between
\* the state is still complete with payload v1.
C6_DoubleCompleteFails ==
  /\ [][(CompleteReturns /\ completion.complete)
          => /\ last'[Producer] = "panic"
             /\ completion' = completion
             /\ completed' = completed]_vars
  /\ []((last[Producer] = "panic" /\ \A c \in Tokens : last[c] = "none")
          => /\ completion.complete
             /\ Len(completed) = 1
             /\ completion.result = Some(completed[1]))

C6_Witness ==
  /\ last[Producer] = "panic"
  /\ completeCalls = 2
  /\ Len(completed) = 1
  /\ completion.result = Some(completed[1])

\* C7: cancel() is idempotent.  No call fails, after any call returned the
\* latch is canceled, and every call after the first leaves (canceled, waker)
\* unchanged, whatever polls and other cancels run concurrently.
C7_IdempotentCancel ==
  /\ [](\A k \in Cancelers : last[k] # "panic")
  /\ [](cancelsDone >= 1 => cancelation.canceled)
  /\ [][(CancelReturns /\ cancelsDone >= 1)
          => cancelation' = cancelation]_vars

C7_Witness ==
  /\ cancelsDone = 2
  /\ \A k \in Cancelers : last[k] = "ok"
  /\ \E w \in CancelWakers : woke[w] = 1
  /\ \E w \in Waiters : last[w] = "Ready"

\* C8: canceled and complete are monotonic: once true they stay true under
\* every operation.
C8_Monotonic ==
  /\ [][cancelation.canceled => cancelation'.canceled]_vars
  /\ [][completion.complete => completion'.complete]_vars

C8_Witness ==
  /\ completion.complete
  /\ completeCalls = 2
  /\ \E c \in Tokens : last[c] = "Ready"
  /\ \E c \in Tokens : last[c] = "panic"

\* C9: completion handoff.  A poll before complete() returns Pending and
\* registers the waker; complete(v) invokes the registered waker; a poll that
\* finds the payload returns Ready(v); and with one consumer and one
\* complete(v) the consumer eventually resolves to v.
C9_Handoff ==
  /\ [][\A c \in Tokens :
          (TokenPollReturns(c) /\ ~completion.complete)
            => (last'[c] = "Pending" /\ completion'.waker = c)]_vars
  /\ [][\A c \in Tokens :
          (CompleteReturns /\ ~completion.complete /\ completion.waker = c)
            => (woke'[c] = woke[c] + 1 /\ scheduled'[c])]_vars
  /\ [][\A c \in Tokens :
          (TokenPollReturns(c) /\ completion.complete
             /\ completion.result # None)
            => (last'[c] = "Ready" /\ got'[c] = completion.result)]_vars
  /\ [](tokens = {Original} /\ completeCalls <= 1)
       => (completion.complete
             ~> (Len(completed) = 1 /\ got[Original] = Some(completed[1])))

C9_Witness ==
  /\ tokens = {Original}
  /\ completeCalls = 1
  /\ woke[Original] = 1
  /\ Len(completed) = 1
  /\ got[Original] = Some(completed[1])

\* C10: a poll of the cancelation wait returns Ready without storing a waker
\* when the latch is canceled, and Pending when it is not, for every future
\* and for the one inside allow_cancel.
C10_PollIsProjection ==
  /\ [][\A w \in Waiters :
          WaitPollReturns(w)
            => IF cancelation.canceled
                 THEN last'[w] = "Ready" /\ cancelation' = cancelation
                 ELSE last'[w] = "Pending"]_vars
  /\ [][RacerPollReturns
          => IF cancelation.canceled
               THEN /\ pc'[Racer] = "done"
                    /\ ac'.arm = "Right"
                    /\ cancelation' = cancelation
               ELSE pc'[Racer] = "suspended"]_vars

C10_Witness ==
  /\ cancelation.canceled
  /\ cancelation.waker = None
  /\ \A w \in Waiters : last[w] = "Ready"
  /\ ac.arm = "Right"
\* the select inside allow_cancel polls the raced future in this step
OpPollReturns == ac'.opPolls = ac.opPolls + 1

\* positions in which a thread is inside a critical section
InCriticalSection == {"locked", "prechecking", "polling"}

\* C11: the stored continuation is invoked only after the latch's lock has
\* been released: whenever a waker was woken by cancel() or complete(), the
\* mutex of the shared state was not owned at that moment.
C11_WakeAfterUnlock ==
  \A t \in Tasks : woke[t] > 0 => ~wokeLocked[t]

\* C12: single slot.  A pending poll replaces whatever waker the slot held;
\* cancel() / complete() invokes only the waker in the slot, so at most one
\* waker per latch is ever invoked and an earlier one is never resumed.
C12_SingleSlot ==
  /\ [][\A w \in Waiters :
          (WaitPollReturns(w) /\ ~cancelation.canceled)
            => cancelation'.waker = w]_vars
  /\ [][(RacerPollReturns /\ ~cancelation.canceled)
          => cancelation'.waker = Racer]_vars
  /\ [][\A c \in Tokens :
          (TokenPollReturns(c) /\ ~completion.complete)
            => completion'.waker = c]_vars
  /\ [][\A w \in CancelWakers :
          (CancelReturns /\ cancelation.waker # w) => woke'[w] = woke[w]]_vars
  /\ [][\A c \in Tokens :
          (CompleteReturns /\ completion.waker # c) => woke'[c] = woke[c]]_vars
  /\ [](Cardinality({t \in Tasks : woke[t] > 0}) <= 1)

C12_Witness ==
  \E w1 \in CancelWakers, w2 \in CancelWakers :
    /\ w1 # w2
    /\ last[w1] = "Pending"
    /\ woke[w1] = 0
    /\ ~scheduled[w1]
    /\ last[w2] = "Pending"
    /\ woke[w2] = 1
    /\ cancelation.canceled

\* C13: after new() the flag is false and the slot empty, and in every
\* reachable state of either latch a fired latch has an empty slot.
C13_FiredImpliesNoWaker ==
  /\ ~cancelation.canceled /\ cancelation.waker = None
  /\ ~completion.complete /\ completion.waker = None
  /\ [](cancelation.canceled => cancelation.waker = None)
  /\ [](completion.complete => completion.waker = None)

C13_Witness ==
  /\ cancelation.canceled
  /\ cancelation.waker = None
  /\ \E w \in Waiters : woke[w] = 1 /\ last[w] = "Pending"
  /\ \E w \in Waiters : woke[w] = 0 /\ last[w] = "Ready"

\* C14: result is None while complete is false, and a value is written to
\* result only in the step in which complete goes from false to true; while
\* complete is true result can only be emptied.
C14_PayloadWrittenOnce ==
  /\ [](~completion.complete => completion.result = None)
  /\ [][(completion'.result # completion.result
           /\ completion'.result # None)
          => (~completion.complete /\ completion'.complete)]_vars
  /\ [](Len(completed) <= 1)

C14_Witness ==
  /\ completeCalls = 2
  /\ last[Producer] = "panic"
  /\ completion.result = None
  /\ Len(completed) = 1
  /\ got[Original] = Some(completed[1])

\* C15: the payload is consumed exactly once.  The poll that finds it takes
\* it out and returns it; a later poll on the same shared state, after it
\* was consumed, panics instead of returning a value or Pending.
C15_ConsumedOnce ==
  /\ [][\A c \in Tokens :
          (TokenPollReturns(c) /\ completion.complete
             /\ completion.result # None)
            => /\ last'[c] = "Ready"
               /\ got'[c] = completion.result
               /\ completion'.result = None]_vars
  /\ [][\A c \in Tokens :
          (TokenPollReturns(c) /\ completion.complete
             /\ completion.result = None)
            => /\ last'[c] = "panic"
               /\ got'[c] = None
               /\ pc'[c] = "dead"]_vars
  /\ [](Cardinality({c \in Tokens : got[c] # None}) <= 1)

C15_Witness ==
  \E c1 \in Tokens, c2 \in Tokens :
    /\ completeCalls = 1
    /\ Len(completed) = 1
    /\ got[c1] = Some(completed[1])
    /\ last[c2] = "panic"
    /\ got[c2] = None

\* C16: a race the operation wins on its first poll leaves the latch
\* untouched: the poll of the raced future does not change the shared state,
\* the racer's waker is never registered, and with nobody else using the
\* latch the state is still (false, None) when allow_cancel has returned the
\* operation's value.
C16_FirstPollWinLeavesLatch ==
  /\ [][OpPollReturns => cancelation' = cancelation]_vars
  /\ []((pc[Racer] = "done" /\ ac.arm = "Left" /\ ac.opPolls = 1)
          => /\ ac.ret = Some(ac.opVal)
             /\ cancelation.waker # Racer
             /\ woke[Racer] = 0
             /\ (cancelCalls = 0 /\ futures = {})
                  => cancelation = CancelationToken_new)

C16_Witness ==
  /\ pc[Racer] = "done"
  /\ ac.arm = "Left"
  /\ ac.opPolls = 1
  /\ ac.ret = Some("result")
  /\ cancelCalls = 0
  /\ futures = {}
  /\ cancelation = CancelationToken_new

\* C17: the lock is never held across a suspension point: a task owns a
\* latch's mutex only while it is inside a critical section, never after its
\* poll returned Pending, while allow_cancel is suspended in its select or
\* between the pre-check and the select.
C17_NoLockAcrossSuspension ==
  \A t \in Threads :
    pc[t] \notin InCriticalSection
      => (lock["cancelation"] # t /\ lock["completion"] # t)

C17_Witness ==
  /\ pc[Racer] = "suspended"
  /\ last[Racer] = "Pending"
  /\ \E w \in Waiters : pc[w] = "idle" /\ last[w] = "Pending"
  /\ lock["cancelation"] = NoThread

\* C18: the tie-break favours the operation.  A poll of the select that
\* finds the raced future ready returns its value through the Left arm even
\* if the latch is canceled by then; the fallback is returned only by the
\* pre-check, or by a poll that found the raced future pending and the latch
\* canceled.
C18_TieBreak ==
  /\ [][(OpPollReturns /\ ac.opReady)
          => /\ pc'[Racer] = "done"
             /\ ac'.arm = "Left"
             /\ ac'.ret = Some(ac.opVal)]_vars
  /\ [](pc[Racer] = "done" =>
          /\ ac.arm \in {"precheck", "Left", "Right"}
          /\ ac.arm = "precheck" => (ac.opPolls = 0 /\ cancelation.canceled)
          /\ ac.arm = "Right" => /\ ac.opPolls >= 1
                                 /\ ac.opWaker
                                 /\ cancelation.canceled
                                 /\ ac.ret = Some(ac.fallback)
          /\ ac.arm = "Left" => ac.ret = Some(ac.opVal))

C18_Witness ==
  /\ pc[Racer] = "done"
  /\ ~ac.afterCancel
  /\ ac.canceledAtPoll
  /\ ac.arm = "Left"
  /\ ac.ret = Some(ac.opVal)
  /\ ac.fallback = "canceled"

\* C19: a panic inside the completion latch's critical section poisons the
\* mutex; from then on every complete() and every poll panics when it takes
\* the lock, the shared state is frozen, and no consumer obtains a payload
\* that was not read before.
C19_Poisoned ==
  /\ [][(CompleteReturns /\ last'[Producer] = "panic")
          => poisoned'["completion"]]_vars
  /\ [][\A c \in Tokens :
          (TokenPollReturns(c) /\ last'[c] = "panic")
            => poisoned'["completion"]]_vars
  /\ [][poisoned["completion"]
          => /\ poisoned'["completion"]
             /\ completion' = completion
             /\ got' = got
             /\ lock' = lock]_vars
  /\ [][\A c \in Tokens :
          (poisoned["completion"] /\ pc'[c] # pc[c])
            => (last'[c] = "panic" /\ pc'[c] = "dead")]_vars
  /\ [][(poisoned["completion"] /\ completeCalls' # completeCalls)
          => last'[Producer] = "panic"]_vars

C19_Witness ==
  /\ poisoned["completion"]
  /\ completeCalls = 2
  /\ Len(completed) = 1
  /\ completion.result = Some(completed[1])
  /\ \A c \in Tokens : got[c] = None
  /\ \E c \in Tokens : pc[c] = "dead" /\ last[c] = "panic"

\* C20: no spurious wakeups.  A waker is invoked only by the cancel() /
\* complete() call that takes it from the slot, in the step that leaves the
\* flag true; no waker is invoked twice; and a task that polls the
\* cancelation wait after the latch woke it gets Ready.
C20_NoSpuriousWakeup ==
  /\ [][\A w \in CancelWakers :
          woke'[w] # woke[w]
            => /\ CancelReturns
               /\ cancelation.waker = w
               /\ cancelation'.waker = None
               /\ cancelation'.canceled]_vars
  /\ [][\A c \in Tokens :
          woke'[c] # woke[c]
            => /\ CompleteReturns
               /\ completion.waker = c
               /\ completion'.waker = None
               /\ completion'.complete]_vars
  /\ [](\A t \in Tasks : woke[t] <= 1)
  /\ [][\A w \in Waiters :
          (WaitPollReturns(w) /\ woke[w] >= 1) => last'[w] = "Ready"]_vars
  /\ [][(RacerPollReturns /\ woke[Racer] >= 1)
          => (pc'[Racer] = "done" /\ ac'.arm = "Right")]_vars

C20_Witness ==
  /\ woke[Racer] = 1
  /\ pc[Racer] = "done"
  /\ ac.arm = "Right"
  /\ ac.opPolls = 2
====
